---- MODULE Spec2Model ----
(***************************************************************************)
(* Model of the interactive configuration helpers of azor-chatdog:         *)
(*   cli/interactive_config.py  - ask_yes_no, ask_float, ask_int,          *)
(*                                ask_for_generation_params,               *)
(*                                ask_for_model_choice                     *)
(*   llm/llama_validation.py    - LlamaConfig                              *)
(*                                                                         *)
(* Text is a sequence of one-character strings, so that strip(), lower(),  *)
(* float(), int() and endswith() are computed character by character.      *)
(* Floats are fixed point numbers counted in tenths (0.7 is 7, 2.0 is 20); *)
(* every line and argument of the model has at most one fractional digit.  *)
(***************************************************************************)
EXTENDS Integers, Sequences, FiniteSets, TLC

\* ------------------------------------------------------------------------
\* Bounds
\* ------------------------------------------------------------------------

\* rejected lines (re-prompts) explored per top-level call
MaxRetries == 2
\* changes other processes make to the disk during ask_for_model_choice
MaxFsChanges == 1
\* attribute assignments made to a constructed LlamaConfig
MaxAssign == 1

\* ------------------------------------------------------------------------
\* Text helpers
\* ------------------------------------------------------------------------

IsSpace(c) == c \in {" ", "\t"}

RECURSIVE LStrip(_)
LStrip(s) ==
    IF s = <<>> THEN <<>>
    ELSE IF IsSpace(Head(s)) THEN LStrip(Tail(s)) ELSE s

RECURSIVE RStrip(_)
RStrip(s) ==
    IF s = <<>> THEN <<>>
    ELSE IF IsSpace(s[Len(s)]) THEN RStrip(SubSeq(s, 1, Len(s) - 1)) ELSE s

\* str.strip()
Strip(s) == RStrip(LStrip(s))

LowerChar(c) ==
    CASE c = "A" -> "a" [] c = "E" -> "e" [] c = "I" -> "i" [] c = "K" -> "k"
      [] c = "N" -> "n" [] c = "O" -> "o" [] c = "S" -> "s" [] c = "T" -> "t"
      [] c = "Y" -> "y" [] c = "F" -> "f"
      [] OTHER -> c

\* str.lower()
Lower(s) == [i \in DOMAIN s |-> LowerChar(s[i])]

IsDigit(c) == c \in {"0", "1", "2", "3", "4", "5", "6", "7", "8", "9"}

DigitVal(c) ==
    CASE c = "0" -> 0 [] c = "1" -> 1 [] c = "2" -> 2 [] c = "3" -> 3
      [] c = "4" -> 4 [] c = "5" -> 5 [] c = "6" -> 6 [] c = "7" -> 7
      [] c = "8" -> 8 [] c = "9" -> 9

AllDigits(s) == \A i \in DOMAIN s : IsDigit(s[i])

RECURSIVE DigitsVal(_)
DigitsVal(s) ==
    IF s = <<>> THEN 0
    ELSE 10 * DigitsVal(SubSeq(s, 1, Len(s) - 1)) + DigitVal(s[Len(s)])

HasSign(s) == s # <<>> /\ Head(s) \in {"-", "+"}
Unsigned(s) == IF HasSign(s) THEN Tail(s) ELSE s
SignOf(s) == IF s # <<>> /\ Head(s) = "-" THEN -1 ELSE 1

\* position of the first "." of s, 0 when there is none
DotAt(s) ==
    IF \E i \in DOMAIN s : s[i] = "."
    THEN CHOOSE i \in DOMAIN s : s[i] = "." /\ \A j \in 1..(i - 1) : s[j] # "."
    ELSE 0

\* int(answer): optional sign followed by one or more decimal digits;
\* anything else raises ValueError (ok = FALSE).
ParseInt(s) ==
    LET t == Strip(s)
        u == Unsigned(t)
    IN  IF u # <<>> /\ AllDigits(u)
        THEN [ok |-> TRUE, v |-> SignOf(t) * DigitsVal(u)]
        ELSE [ok |-> FALSE, v |-> 0]

\* float(answer), in tenths: optional sign, then "nan", "inf"/"infinity"
\* (any case) or a decimal with digits on at least one side of the point;
\* anything else raises ValueError (kind = "err").
ParseFloat(s) ==
    LET t == Strip(s)
        u == Unsigned(t)
        w == Lower(u)
        d == DotAt(u)
        ip == IF d = 0 THEN u ELSE SubSeq(u, 1, d - 1)
        fp == IF d = 0 THEN <<>> ELSE SubSeq(u, d + 1, Len(u))
    IN  IF w = <<"n", "a", "n">> THEN [kind |-> "nan", v |-> 0]
        ELSE IF w \in {<<"i", "n", "f">>, <<"i", "n", "f", "i", "n", "i", "t", "y">>}
        THEN [kind |-> "inf", v |-> SignOf(t)]
        ELSE IF AllDigits(ip) /\ AllDigits(fp) /\ (ip # <<>> \/ fp # <<>>)
        THEN [kind |-> "num",
              v |-> SignOf(t) * (10 * DigitsVal(ip)
                                 + (IF fp = <<>> THEN 0 ELSE DigitVal(fp[1])))]
        ELSE [kind |-> "err", v |-> 0]

\* str.endswith(suffix)
EndsWith(s, suffix) ==
    /\ Len(s) >= Len(suffix)
    /\ SubSeq(s, Len(s) - Len(suffix) + 1, Len(s)) = suffix

\* ------------------------------------------------------------------------
\* State
\* ------------------------------------------------------------------------

VARIABLES
    fn,        \* the function of the module that was called
    args,      \* its arguments
    pc,        \* "call", "filter", "input" (blocked in input()), "done", "raised"
    exc,       \* the exception that left the call, "" when there is none
    stage,     \* ask_for_generation_params: which of its prompts is running
    prim,      \* frame of the running prompt: name, default, min_val, max_val
    hist,      \* lines read by the running prompt, oldest first
    errs,      \* console.print_error messages of the running prompt
    out,       \* console.print_info / warning messages of the call
    nreads,    \* input() calls of the whole call
    retries,   \* rejected lines of the whole call
    calls,     \* prompts invoked by the call, in order
    answers,   \* the line each returned prompt returned on, in order
    locals,    \* ask_for_generation_params: temperature, top_p read so far
    result,    \* the returned value
    fs,        \* paths that exist on disk (os.path.exists)
    nfs,       \* changes made to the disk by other processes
    idx,       \* ask_for_model_choice: position of the availability loop
    available_models, \* ask_for_model_choice: keys whose file was found
    raw,       \* LlamaConfig: the keyword arguments of the construction
    cfg,       \* LlamaConfig: the record, <<>> when there is none
    errors,    \* LlamaConfig: (field, error) pairs of the ValidationError
    nassign    \* LlamaConfig: attribute assignments made to the record

promptVars == <<stage, prim, hist, errs, calls, answers, locals>>
modelVars == <<idx, available_models>>
configVars == <<raw, cfg, errors, nassign>>
vars == <<fn, args, pc, exc, out, nreads, retries, result, fs, nfs,
          promptVars, modelVars, configVars>>

NoFrame == [name |-> "none", default |-> 0, min_val |-> 0, max_val |-> 0]
NoLocals == [temperature |-> 0, top_p |-> 0]

\* ------------------------------------------------------------------------
\* Console input
\* ------------------------------------------------------------------------

\* the lines the console can deliver (without the newline)
Lines ==
    { <<>>,
      <<" ">>,
      <<"T">>,
      <<" ", "T", "a", "k", "\t">>,
      <<"y">>,
      <<"Y", "E", "S">>,
      <<"n">>,
      <<"N", "i", "e">>,
      <<"n", "o", " ">>,
      <<"x", "y", "z">>,
      <<"0">>,
      <<"1">>,
      <<" ", "1", ".", "5">>,
      <<"2", ".", "0">>,
      <<"3">>,
      <<"-", "1">>,
      <<"n", "a", "n">> }

\* ------------------------------------------------------------------------
\* cli/interactive_config.py: the prompt loops
\* ------------------------------------------------------------------------

\* variant: 'yes' left out of the accepted tokens
YesAnswers_without_yes == { <<"t">>, <<"t", "a", "k">>, <<"y">> }

YesAnswers == { <<"t">>, <<"t", "a", "k">>, <<"y">>, <<"y", "e", "s">> }
NoAnswers == { <<"n">>, <<"n", "i", "e">>, <<"n", "o">> }

\* variant: the upper bound taken as exclusive
FloatInRange_exclusive(value, min_val, max_val) ==
    value.kind = "num" /\ min_val <= value.v /\ value.v < max_val

\* min_val <= value <= max_val on the parsed float; NaN compares false
\* (so does an infinity against the finite bounds the module passes)
FloatInRange(value, min_val, max_val) ==
    value.kind = "num" /\ min_val <= value.v /\ value.v <= max_val

\* variant: the comparison turned around
IntInRange_reversed(value, min_val) == value <= min_val

\* value >= min_val
IntInRange(value, min_val) == value >= min_val

\* bounds and gate default that ask_for_generation_params passes down
\* variant: the gate defaulting to yes
GateDefault_yes == TRUE

GateDefault == FALSE
TemperatureMin == 0
TemperatureMax == 20
TopPMin == 0
TopPMax == 10
TopKMin == 0

\* the statements of ask_for_generation_params after ask_yes_no returned v
AfterGate(v) ==
    IF ~v
    THEN /\ out' = Append(out, "using_defaults")
         /\ result' = [temperature |-> args.current_temp,
                       top_p |-> args.current_top_p,
                       top_k |-> args.current_top_k]
         /\ pc' = "done"
         /\ UNCHANGED <<stage, prim, calls, locals>>
    ELSE /\ out' = Append(out, "explanation")
         /\ stage' = "temperature"
         /\ prim' = [name |-> "ask_float", default |-> args.current_temp,
                     min_val |-> TemperatureMin, max_val |-> TemperatureMax]
         /\ calls' = Append(calls, "ask_float")
         /\ UNCHANGED <<result, pc, locals>>

\* ... after the temperature prompt returned v
AfterTemperature(v) ==
    /\ locals' = [locals EXCEPT !.temperature = v]
    /\ stage' = "top_p"
    /\ prim' = [name |-> "ask_float", default |-> args.current_top_p,
                min_val |-> TopPMin, max_val |-> TopPMax]
    /\ calls' = Append(calls, "ask_float")
    /\ UNCHANGED <<result, pc, out>>

\* ... after the top_p prompt returned v
AfterTopP(v) ==
    /\ locals' = [locals EXCEPT !.top_p = v]
    /\ stage' = "top_k"
    /\ prim' = [name |-> "ask_int", default |-> args.current_top_k,
                min_val |-> TopKMin, max_val |-> 0]
    /\ calls' = Append(calls, "ask_int")
    /\ UNCHANGED <<result, pc, out>>

\* ... after the top_k prompt returned v
AfterTopK(v) ==
    /\ out' = Append(out, "summary")
    /\ result' = [temperature |-> locals.temperature,
                  top_p |-> locals.top_p,
                  top_k |-> v]
    /\ pc' = "done"
    /\ UNCHANGED <<stage, prim, calls, locals>>

\* the running prompt returns v after reading line: control goes back to
\* the caller of the module or to ask_for_generation_params
Return(v, line) ==
    /\ UNCHANGED retries
    /\ answers' = Append(answers, line)
    /\ IF fn # "ask_for_generation_params"
       THEN /\ result' = v
            /\ pc' = "done"
            /\ hist' = Append(hist, line)
            /\ UNCHANGED <<stage, prim, errs, out, calls, locals>>
       ELSE /\ hist' = <<>>
            /\ errs' = <<>>
            /\ CASE stage = "gate" -> AfterGate(v)
                 [] stage = "temperature" -> AfterTemperature(v)
                 [] stage = "top_p" -> AfterTopP(v)
                 [] stage = "top_k" -> AfterTopK(v)

\* print_error(msg) and the next iteration of the while True loop
Reprompt(line, msg) ==
    /\ retries < MaxRetries
    /\ retries' = retries + 1
    /\ hist' = Append(hist, line)
    /\ errs' = Append(errs, msg)
    /\ UNCHANGED <<pc, stage, prim, out, calls, answers, locals, result>>

\* one iteration of the loop of ask_yes_no
ask_yes_no ==
    /\ pc = "input"
    /\ prim.name = "ask_yes_no"
    /\ \E line \in Lines :
        LET answer == Lower(Strip(line))
        IN  IF answer = <<>> THEN Return(prim.default, line)
            ELSE IF answer \in YesAnswers THEN Return(TRUE, line)
            ELSE IF answer \in NoAnswers THEN Return(FALSE, line)
            ELSE Reprompt(line, "answer_t_or_n")
    /\ nreads' = nreads + 1
    /\ UNCHANGED <<fn, args, exc, fs, nfs, modelVars, configVars>>

\* one iteration of the loop of ask_float
ask_float ==
    /\ pc = "input"
    /\ prim.name = "ask_float"
    /\ \E line \in Lines :
        LET answer == Strip(line)
            value == ParseFloat(answer)
        IN  IF answer = <<>> THEN Return(prim.default, line)
            ELSE IF value.kind = "err" THEN Reprompt(line, "not_a_number")
            ELSE IF FloatInRange(value, prim.min_val, prim.max_val)
            THEN Return(value.v, line)
            ELSE Reprompt(line, "out_of_range")
    /\ nreads' = nreads + 1
    /\ UNCHANGED <<fn, args, exc, fs, nfs, modelVars, configVars>>

\* one iteration of the loop of ask_int
ask_int ==
    /\ pc = "input"
    /\ prim.name = "ask_int"
    /\ \E line \in Lines :
        LET answer == Strip(line)
            value == ParseInt(answer)
        IN  IF answer = <<>> THEN Return(prim.default, line)
            ELSE IF ~value.ok THEN Reprompt(line, "not_an_integer")
            ELSE IF IntInRange(value.v, prim.min_val)
            THEN Return(value.v, line)
            ELSE Reprompt(line, "below_minimum")
    /\ nreads' = nreads + 1
    /\ UNCHANGED <<fn, args, exc, fs, nfs, modelVars, configVars>>

\* input() at the end of the console's input: EOFError, which no loop of
\* the module catches, leaves the call
input_eof ==
    /\ pc = "input"
    /\ nreads' = nreads + 1
    /\ pc' = "raised"
    /\ exc' = "EOFError"
    /\ UNCHANGED <<fn, args, out, retries, result, fs, nfs,
                   promptVars, modelVars, configVars>>

\* entry of a prompt called directly
call_prompt ==
    /\ pc = "call"
    /\ fn \in {"ask_yes_no", "ask_float", "ask_int"}
    /\ prim' = [name |-> fn, default |-> args.default,
                min_val |-> args.min_val, max_val |-> args.max_val]
    /\ calls' = <<fn>>
    /\ pc' = "input"
    /\ UNCHANGED <<fn, args, exc, out, nreads, retries, result, fs, nfs,
                   stage, hist, errs, answers, locals, modelVars, configVars>>

\* entry of ask_for_generation_params, up to the input() of its gate
ask_for_generation_params ==
    /\ pc = "call"
    /\ fn = "ask_for_generation_params"
    /\ out' = Append(out, "header")
    /\ stage' = "gate"
    /\ prim' = [name |-> "ask_yes_no", default |-> GateDefault,
                min_val |-> 0, max_val |-> 0]
    /\ calls' = <<"ask_yes_no">>
    /\ pc' = "input"
    /\ UNCHANGED <<fn, args, exc, nreads, retries, result, fs, nfs,
                   hist, errs, answers, locals, modelVars, configVars>>

\* arguments of the calls explored
YesNoArgs == [default : BOOLEAN, min_val : {0}, max_val : {0}]
FloatArgs == [default : {7, 25}, min_val : {0, 15}, max_val : {10, 20}]
IntArgs == [default : {40, -1}, min_val : {0, 2}, max_val : {0}]
GenerationArgs ==
    { [current_temp |-> 7, current_top_p |-> 9, current_top_k |-> 40],
      [current_temp |-> 25, current_top_p |-> 15, current_top_k |-> -1] }

InitCommon ==
    /\ pc = "call"
    /\ exc = ""
    /\ stage = "none"
    /\ prim = NoFrame
    /\ hist = <<>>
    /\ errs = <<>>
    /\ out = <<>>
    /\ nreads = 0
    /\ retries = 0
    /\ calls = <<>>
    /\ answers = <<>>
    /\ locals = NoLocals
    /\ result = <<>>
    /\ nfs = 0
    /\ idx = 1
    /\ available_models = {}
    /\ raw = <<>>
    /\ cfg = <<>>
    /\ errors = {}
    /\ nassign = 0

InitPrompt ==
    /\ InitCommon
    /\ fs = {}
    /\ \/ fn = "ask_yes_no" /\ args \in YesNoArgs
       \/ fn = "ask_float" /\ args \in FloatArgs
       \/ fn = "ask_int" /\ args \in IntArgs
       \/ fn = "ask_for_generation_params" /\ args \in GenerationArgs

NextPrompt ==
    \/ call_prompt
    \/ ask_for_generation_params
    \/ ask_yes_no
    \/ ask_float
    \/ ask_int
    \/ input_eof

SpecPrompt == InitPrompt /\ [][NextPrompt]_vars

\* ------------------------------------------------------------------------
\* cli/interactive_config.py: ask_for_model_choice
\* ------------------------------------------------------------------------

\* keys of the models dict, in insertion order
ModelKeys == << <<"1">>, <<"2">>, <<"3">> >>

\* the models dict: name and expanded path of each entry
models ==
    [k \in {ModelKeys[i] : i \in 1..3} |->
        CASE k = <<"1">> -> [name |-> "Gemma 3 1B Q4_K_M",
                             path |-> "gemma-3-1b-it-Q4_K_M.gguf"]
          [] k = <<"2">> -> [name |-> "Gemma 2 2B Q8_0",
                             path |-> "gemma-2-2b-it-Q8_0.gguf"]
          [] k = <<"3">> -> [name |-> "Llama 3.1 8B Q4_K_M",
                             path |-> "Meta-Llama-3.1-8B-Instruct-Q4_K_M.gguf"]]

CatalogPaths == {models[k].path : k \in DOMAIN models}

\* the lines the console can deliver to the choice prompt
ChoiceLines ==
    { <<>>, <<"0">>, <<"1">>, <<" ", "2", " ">>, <<"3">>, <<"4">>, <<"x">> }

\* variant: the early return dropped
NoModels_never(available) == FALSE

\* "if not available_models": the early return without a prompt
NoModels(available) == available = {}

\* entry of ask_for_model_choice, up to the availability loop
ask_for_model_choice ==
    /\ pc = "call"
    /\ fn = "ask_for_model_choice"
    /\ out' = Append(out, "header")
    /\ idx' = 1
    /\ available_models' = {}
    /\ pc' = "filter"
    /\ UNCHANGED <<fn, args, exc, nreads, retries, result, fs, nfs,
                   promptVars, configVars>>

\* one iteration of "for key, model in models.items()"; the last one goes
\* on to the empty check and the menu
check_available ==
    /\ pc = "filter"
    /\ LET key == ModelKeys[idx]
           found == IF models[key].path \in fs
                    THEN available_models \cup {key}
                    ELSE available_models
       IN  /\ available_models' = found
           /\ IF idx < Len(ModelKeys)
              THEN /\ idx' = idx + 1
                   /\ UNCHANGED <<pc, out, result>>
              ELSE /\ UNCHANGED idx
                   /\ IF NoModels(found)
                      THEN /\ out' = out \o <<"no_models_warning", "using_env_default">>
                           /\ result' = <<>>
                           /\ pc' = "done"
                      ELSE /\ out' = Append(out, "menu")
                           /\ pc' = "input"
                           /\ UNCHANGED result
    /\ UNCHANGED <<fn, args, exc, nreads, retries, fs, nfs,
                   promptVars, configVars>>

\* the error branch of the choice loop
ChoiceError(choice) ==
    IF choice \in DOMAIN models /\ models[choice].path \notin fs
    THEN [msg |-> "model_missing", path |-> models[choice].path]
    ELSE [msg |-> "invalid_choice", path |-> ""]

\* one iteration of the choice loop
choose_model ==
    /\ pc = "input"
    /\ fn = "ask_for_model_choice"
    /\ \E line \in ChoiceLines :
        LET choice == Strip(line)
        IN  /\ hist' = Append(hist, line)
            /\ IF choice = <<"0">>
               THEN /\ out' = Append(out, "using_env_default")
                    /\ result' = <<>>
                    /\ pc' = "done"
                    /\ UNCHANGED <<errs, retries>>
               ELSE IF choice \in available_models
               THEN /\ out' = Append(out, "selected")
                    /\ result' = <<models[choice].path, models[choice].name>>
                    /\ pc' = "done"
                    /\ UNCHANGED <<errs, retries>>
               ELSE /\ retries < MaxRetries
                    /\ retries' = retries + 1
                    /\ errs' = Append(errs, ChoiceError(choice))
                    /\ UNCHANGED <<out, result, pc>>
    /\ nreads' = nreads + 1
    /\ UNCHANGED <<fn, args, exc, fs, nfs, stage, prim, calls, answers,
                   locals, modelVars, configVars>>

\* another process creates or removes a catalog file during the call
disk_change ==
    /\ pc \in {"filter", "input"}
    /\ nfs < MaxFsChanges
    /\ nfs' = nfs + 1
    /\ \E p \in CatalogPaths :
        fs' = IF p \in fs THEN fs \ {p} ELSE fs \cup {p}
    /\ UNCHANGED <<fn, args, pc, exc, out, nreads, retries, result,
                   promptVars, modelVars, configVars>>

InitModel ==
    /\ InitCommon
    /\ fn = "ask_for_model_choice"
    /\ args = <<>>
    /\ fs \in SUBSET CatalogPaths

NextModel ==
    \/ ask_for_model_choice
    \/ check_available
    \/ choose_model
    \/ input_eof
    \/ disk_change

SpecModel == InitModel /\ [][NextModel]_vars

\* ------------------------------------------------------------------------
\* llm/llama_validation.py: LlamaConfig
\* ------------------------------------------------------------------------

Gguf == <<".", "g", "g", "u", "f">>

\* the model paths of the constructions explored
ConfigPaths ==
    { <<"m", ".", "g", "g", "u", "f">>,
      <<"m", ".", "b", "i", "n">>,
      <<"m", "g", "g", "u", "f">> }

\* variant: the suffix checked before the existence
validate_model_path_suffix_first(v, disk) ==
    IF ~EndsWith(v, Gguf) THEN "bad_extension"
    ELSE IF v \notin disk THEN "file_does_not_exist"
    ELSE ""

\* @validator('llama_model_path'): the error it raises, "" when it returns v
validate_model_path(v, disk) ==
    IF v \notin disk THEN "file_does_not_exist"
    ELSE IF ~EndsWith(v, Gguf) THEN "bad_extension"
    ELSE ""

\* Field(...) defaults
DefaultGpuLayers == 1
DefaultContextSize == 2048
DefaultTemperature == 7
DefaultTopP == 9
DefaultTopK == 40

\* Field(...) constraints
EngineOk(v) == v = "LLAMA"
GpuLayersOk(v) == v >= -1
ContextSizeOk(v) == v >= 1
\* variant: le=2.0 written as lt=2.0
TemperatureOk_lt(v) == v >= 0 /\ v < 20

TemperatureOk(v) == v >= 0 /\ v <= 20
TopPOk(v) == v >= 0 /\ v <= 10
TopKOk(v) == v >= 0

\* keyword arguments: <<>> is an argument that is not passed, <<v>> one
\* that is passed with value v
RawInputs ==
    [engine : {<<>>, <<"LLAMA">>, <<"GEMINI">>},
     model_name : {<<>>, <<"gemma">>},
     llama_model_path : {<<>>} \cup {<<p>> : p \in ConfigPaths},
     llama_gpu_layers : {<<>>, <<-2>>, <<-1>>},
     llama_context_size : {<<>>, <<0>>, <<1>>},
     llama_temperature : {<<>>, <<-1>>, <<0>>, <<20>>, <<21>>},
     llama_top_p : {<<>>, <<-1>>, <<10>>, <<11>>},
     llama_top_k : {<<>>, <<-1>>, <<0>>}]

Given(r, f) == r[f] # <<>>

\* value of an optional field: the argument, or the default
FieldValue(r, f, default) == IF Given(r, f) THEN r[f][1] ELSE default

\* one validation error, when cond holds
ErrorIf(cond, field, error) == IF cond THEN {<<field, error>>} ELSE {}

\* the (field, error) pairs pydantic collects for the arguments r
FieldErrors(r, disk) ==
    ErrorIf(Given(r, "engine") /\ ~EngineOk(r.engine[1]), "engine", "literal")
    \cup ErrorIf(~Given(r, "model_name"), "model_name", "missing")
    \cup ErrorIf(~Given(r, "llama_model_path"), "llama_model_path", "missing")
    \cup ErrorIf(Given(r, "llama_model_path")
                 /\ validate_model_path(r.llama_model_path[1], disk) # "",
                 "llama_model_path",
                 validate_model_path(r.llama_model_path[1], disk))
    \cup ErrorIf(Given(r, "llama_gpu_layers")
                 /\ ~GpuLayersOk(r.llama_gpu_layers[1]), "llama_gpu_layers", "ge")
    \cup ErrorIf(Given(r, "llama_context_size")
                 /\ ~ContextSizeOk(r.llama_context_size[1]), "llama_context_size", "ge")
    \cup ErrorIf(Given(r, "llama_temperature")
                 /\ ~TemperatureOk(r.llama_temperature[1]), "llama_temperature", "range")
    \cup ErrorIf(Given(r, "llama_top_p")
                 /\ ~TopPOk(r.llama_top_p[1]), "llama_top_p", "range")
    \cup ErrorIf(Given(r, "llama_top_k")
                 /\ ~TopKOk(r.llama_top_k[1]), "llama_top_k", "ge")

\* the record of a construction without errors
Record(r) ==
    [engine |-> "LLAMA",
     model_name |-> r.model_name[1],
     llama_model_path |-> r.llama_model_path[1],
     llama_gpu_layers |-> FieldValue(r, "llama_gpu_layers", DefaultGpuLayers),
     llama_context_size |-> FieldValue(r, "llama_context_size", DefaultContextSize),
     llama_temperature |-> FieldValue(r, "llama_temperature", DefaultTemperature),
     llama_top_p |-> FieldValue(r, "llama_top_p", DefaultTopP),
     llama_top_k |-> FieldValue(r, "llama_top_k", DefaultTopK)]

\* LlamaConfig(**r)
LlamaConfig ==
    /\ pc = "call"
    /\ fn = "LlamaConfig"
    /\ \E r \in RawInputs :
        LET es == FieldErrors(r, fs)
        IN  /\ raw' = r
            /\ errors' = es
            /\ IF es = {}
               THEN /\ cfg' = Record(r)
                    /\ pc' = "done"
                    /\ UNCHANGED exc
               ELSE /\ cfg' = <<>>
                    /\ pc' = "raised"
                    /\ exc' = "ValidationError"
    /\ UNCHANGED <<fn, args, out, nreads, retries, result, fs, nfs, nassign,
                   promptVars, modelVars>>

\* values a caller may assign to a numeric field of a record
AssignValues == {-2, 0, 21}
NumericFields ==
    {"llama_gpu_layers", "llama_context_size", "llama_temperature",
     "llama_top_p", "llama_top_k"}

\* config.<field> = v on a constructed record: the class sets neither
\* allow_mutation = False nor validate_assignment, so BaseModel stores v
set_attribute ==
    /\ pc = "done"
    /\ fn = "LlamaConfig"
    /\ nassign < MaxAssign
    /\ nassign' = nassign + 1
    /\ \E f \in NumericFields, v \in AssignValues :
        cfg' = [cfg EXCEPT ![f] = v]
    /\ UNCHANGED <<fn, args, pc, exc, out, nreads, retries, result, fs, nfs,
                   raw, errors, promptVars, modelVars>>

InitConfig ==
    /\ InitCommon
    /\ fn = "LlamaConfig"
    /\ args = <<>>
    /\ fs \in SUBSET ConfigPaths

NextConfig ==
    \/ LlamaConfig
    \/ set_attribute

SpecConfig == InitConfig /\ [][NextConfig]_vars

\* ------------------------------------------------------------------------
\* Properties
\* ------------------------------------------------------------------------

\* what each console line means, written out line by line
EmptyLines == { <<>>, <<" ">> }
YesLines == { <<"T">>, <<" ", "T", "a", "k", "\t">>, <<"y">>, <<"Y", "E", "S">> }
NoLines == { <<"n">>, <<"N", "i", "e">>, <<"n", "o", " ">> }

\* the float (in tenths) and the integer each numeric line stands for
FloatLines ==
    { <<<<"0">>, 0>>, <<<<"1">>, 10>>, <<<<" ", "1", ".", "5">>, 15>>,
      <<<<"2", ".", "0">>, 20>>, <<<<"3">>, 30>>, <<<<"-", "1">>, -10>> }
IntLines ==
    { <<<<"0">>, 0>>, <<<<"1">>, 1>>, <<<<"3">>, 3>>, <<<<"-", "1">>, -1>> }

\* line is a number the running top-level prompt accepts, and v its value
Accepts(line, v) ==
    \/ /\ fn = "ask_float"
       /\ <<line, v>> \in FloatLines
       /\ args.min_val <= v
       /\ v <= args.max_val
    \/ /\ fn = "ask_int"
       /\ <<line, v>> \in IntLines
       /\ v >= args.min_val

Acceptable(line) ==
    line \in EmptyLines \/ \E v \in -10..30 : Accepts(line, v)

Last(q) == q[Len(q)]

\* C1: ask_float and ask_int return on the first line that is empty or a
\* number within the bounds: the default for an empty line (whether or not
\* the default is within the bounds), the number otherwise; every line
\* before it was rejected with an error message and is not returned.
C1_BoundedPromptReturnsFirstValid ==
    (fn \in {"ask_float", "ask_int"} /\ pc # "call") =>
        /\ Len(errs) = (IF pc = "done" THEN Len(hist) - 1 ELSE Len(hist))
        /\ \A i \in 1..Len(errs) :
            /\ ~Acceptable(hist[i])
            /\ errs[i] \in {"not_a_number", "out_of_range",
                            "not_an_integer", "below_minimum"}
        /\ pc = "done" =>
            /\ hist # <<>>
            /\ \/ Last(hist) \in EmptyLines /\ result = args.default
               \/ Accepts(Last(hist), result)

C1_Witness ==
    /\ fn = "ask_float"
    /\ pc = "done"
    /\ args.default = 25
    /\ args.max_val = 20
    /\ hist = << <<"3">>, <<"x", "y", "z">>, <<" ">> >>
    /\ result = 25

GenerationDone == fn = "ask_for_generation_params" /\ pc = "done"

\* C2 as claimed: every record ask_for_generation_params returns has
\* temperature in [0.0, 2.0], top_p in [0.0, 1.0] and top_k >= 0.
C2_ReturnedParamsInRange ==
    GenerationDone =>
        /\ result.temperature \in 0..20
        /\ result.top_p \in 0..10
        /\ result.top_k >= 0

\* C2 as amended: every record ask_for_generation_params returns has the
\* three fields, and each field is either within its range or equal to
\* the current_* argument it defaults to.
C2_ReturnedParamsInRangeOrCurrent ==
    GenerationDone =>
        /\ DOMAIN result = {"temperature", "top_p", "top_k"}
        /\ result.temperature \in 0..20 \/ result.temperature = args.current_temp
        /\ result.top_p \in 0..10 \/ result.top_p = args.current_top_p
        /\ result.top_k >= 0 \/ result.top_k = args.current_top_k

C2_Witness ==
    /\ GenerationDone
    /\ Len(answers) = 4
    /\ result.temperature = 25
    /\ result.top_p = 10
    /\ result.top_k = 3

\* C3: when the answer to the gate is no (a negative token or an empty
\* line), ask_for_generation_params returns the three current values
\* unchanged, reads no line after the gate's and invokes no other prompt.
C3_DeclinedGateReturnsCurrent ==
    (/\ fn = "ask_for_generation_params"
     /\ answers # <<>>
     /\ answers[1] \in NoLines \cup EmptyLines) =>
        /\ pc = "done"
        /\ result = [temperature |-> args.current_temp,
                     top_p |-> args.current_top_p,
                     top_k |-> args.current_top_k]
        /\ calls = <<"ask_yes_no">>
        /\ Len(answers) = 1
        /\ nreads = retries + 1
        /\ out = <<"header", "using_defaults">>

C3_Witness ==
    /\ GenerationDone
    /\ answers = << <<>> >>
    /\ retries = 1
    /\ nreads = 2
    /\ result.temperature = 25

\* C4: when the availability loop of ask_for_model_choice found none of
\* the three files, the call has returned None after the warning and has
\* read nothing from the console.
C4_NoModelsNoPrompt ==
    (/\ fn = "ask_for_model_choice"
     /\ pc \notin {"call", "filter"}
     /\ available_models = {}) =>
        /\ pc = "done"
        /\ result = <<>>
        /\ out = <<"header", "no_models_warning", "using_env_default">>
        /\ nreads = 0
        /\ hist = <<>>

C4_Witness ==
    /\ fn = "ask_for_model_choice"
    /\ pc = "done"
    /\ fs = {}
    /\ nfs = 0
    /\ available_models = {}
    /\ "no_models_warning" \in {out[i] : i \in DOMAIN out}

ChoiceKeys == { <<"1">>, <<"2">>, <<"3">> }
KeyOfLine(line) ==
    CASE line = <<"1">> -> <<"1">>
      [] line = <<" ", "2", " ">> -> <<"2">>
      [] line = <<"3">> -> <<"3">>
      [] line = <<"0">> -> <<"0">>
      [] OTHER -> <<>>

\* C5 as claimed: in the choice loop a token that is a catalog key left
\* out of the available set gets the error naming its missing path, and
\* the generic invalid-choice error is printed only for tokens that are
\* neither '0' nor a catalog key, whatever happens to the disk meanwhile.
C5_FilteredKeyGetsSpecificError ==
    fn = "ask_for_model_choice" =>
        \A i \in 1..Len(errs) :
            LET token == KeyOfLine(hist[i])
            IN  /\ (token \in ChoiceKeys /\ token \notin available_models) =>
                    errs[i] = [msg |-> "model_missing", path |-> models[token].path]
                /\ errs[i].msg = "invalid_choice" =>
                    token \notin ChoiceKeys \cup {<<"0">>}

\* C9 as claimed: no prompt loop lets a failure out to its caller,
\* whatever the console delivers, the end of the input included.
C9_PromptNeverRaises ==
    fn \in {"ask_yes_no", "ask_float", "ask_int"} => pc # "raised"

\* C10: ask_yes_no returns on the first line that, trimmed and lowered, is
\* empty or a recognised token: True for t/tak/y/yes, False for n/nie/no,
\* the default for an empty line; every line before it got the error
\* message and a re-prompt.
C10_YesNoReturnsFirstRecognised ==
    (fn = "ask_yes_no" /\ pc # "call") =>
        /\ Len(errs) = (IF pc = "done" THEN Len(hist) - 1 ELSE Len(hist))
        /\ \A i \in 1..Len(errs) :
            /\ hist[i] \notin YesLines \cup NoLines \cup EmptyLines
            /\ errs[i] = "answer_t_or_n"
        /\ pc = "done" =>
            /\ hist # <<>>
            /\ \/ Last(hist) \in YesLines /\ result = TRUE
               \/ Last(hist) \in NoLines /\ result = FALSE
               \/ Last(hist) \in EmptyLines /\ result = args.default

C10_Witness ==
    /\ fn = "ask_yes_no"
    /\ pc = "done"
    /\ hist = << <<"x", "y", "z">>, <<"1">>, <<"Y", "E", "S">> >>
    /\ args.default = FALSE
    /\ result = TRUE

\* the paths of ConfigPaths that end in '.gguf', written out
GgufPaths == { <<"m", ".", "g", "g", "u", "f">> }

PathErrors == {e \in errors : e[1] = "llama_model_path"}

\* C6: the model path is checked for existence first and for the '.gguf'
\* suffix second: a missing file fails with the does-not-exist error
\* whatever its suffix, an existing file with another suffix fails with
\* the extension error, and an existing '.gguf' path is accepted and
\* stored unchanged.
C6_ExistenceBeforeSuffix ==
    (fn = "LlamaConfig" /\ pc # "call" /\ raw.llama_model_path # <<>>) =>
        LET v == raw.llama_model_path[1]
        IN  /\ v \notin fs =>
                /\ pc = "raised"
                /\ PathErrors = {<<"llama_model_path", "file_does_not_exist">>}
            /\ (v \in fs /\ v \notin GgufPaths) =>
                /\ pc = "raised"
                /\ PathErrors = {<<"llama_model_path", "bad_extension">>}
            /\ (v \in fs /\ v \in GgufPaths) =>
                /\ PathErrors = {}
                /\ pc = "done" => cfg.llama_model_path = v

C6_Witness ==
    /\ fn = "LlamaConfig"
    /\ pc = "raised"
    /\ raw.llama_model_path = << <<"m", ".", "b", "i", "n">> >>
    /\ fs = GgufPaths
    /\ errors = {<<"llama_model_path", "file_does_not_exist">>}

\* the conditions of C7 on the arguments, omitted fields taking the
\* defaults 1, 2048, 0.7, 0.9, 40
Arg(f, default) == IF raw[f] = <<>> THEN default ELSE raw[f][1]

C7_Conditions ==
    /\ raw.model_name # <<>>
    /\ raw.llama_model_path # <<>>
    /\ raw.llama_model_path[1] \in fs \cap GgufPaths
    /\ Arg("llama_gpu_layers", 1) >= -1
    /\ Arg("llama_context_size", 2048) >= 1
    /\ Arg("llama_temperature", 7) \in 0..20
    /\ Arg("llama_top_p", 9) \in 0..10
    /\ Arg("llama_top_k", 40) >= 0

Constructed == fn = "LlamaConfig" /\ pc # "call" /\ nassign = 0

\* C7 as claimed: the construction succeeds if and only if the names are
\* present, the path passes its check and the five numbers are within
\* their inclusive bounds; otherwise it raises and returns no record.
C7_SucceedsIffFieldsValid ==
    Constructed =>
        /\ pc = "done" <=> C7_Conditions
        /\ pc = "raised" <=> cfg = <<>>

\* C7 as amended: the construction succeeds if and only if, besides the
\* conditions above, engine is omitted or equal to "LLAMA"; the record
\* then holds the arguments and the defaults of the omitted fields;
\* otherwise the construction raises and returns no record.
C7_SucceedsIffFieldsAndEngineValid ==
    Constructed =>
        /\ pc = "done" <=> (C7_Conditions /\ raw.engine \in {<<>>, <<"LLAMA">>})
        /\ pc = "raised" <=> cfg = <<>>
        /\ pc = "done" =>
            cfg = [engine |-> "LLAMA",
                   model_name |-> raw.model_name[1],
                   llama_model_path |-> raw.llama_model_path[1],
                   llama_gpu_layers |-> Arg("llama_gpu_layers", 1),
                   llama_context_size |-> Arg("llama_context_size", 2048),
                   llama_temperature |-> Arg("llama_temperature", 7),
                   llama_top_p |-> Arg("llama_top_p", 9),
                   llama_top_k |-> Arg("llama_top_k", 40)]

C7_Witness ==
    /\ fn = "LlamaConfig"
    /\ pc = "done"
    /\ nassign = 0
    /\ raw.engine = <<"LLAMA">>
    /\ cfg.llama_temperature = 20
    /\ cfg.llama_gpu_layers = -1
    /\ cfg.llama_context_size = 2048
    /\ cfg.llama_top_k = 0

\* C8 as claimed: a constructed LlamaConfig is immutable, no operation
\* changes any of its fields.
C8_RecordImmutable ==
    [][(fn = "LlamaConfig" /\ pc = "done") => cfg' = cfg]_vars

====
